---- MODULE Spec2Model ----
(***************************************************************************)
(* Model of the order-processing state machine of the Temu price           *)
(* adjustment bot (src/main.py, src/utils.py).                             *)
(*                                                                         *)
(* Spec is one run of the bot whose batch (orders_to_process) holds the     *)
(* order PO-1: process_orders hands it to process_order, which is modelled *)
(* statement block by statement block.  The environment decides whether a  *)
(* page loads, an element is found, a dialog appears and how it reads, and *)
(* whether a file write fails.  The disk at the start is empty or holds    *)
(* what an earlier run left.                                               *)
(*                                                                         *)
(* Python dicts are modelled as functions whose DOMAIN is the set of keys  *)
(* present in the dict: `k in d` is k \in DOMAIN d, d.update(e) is e @@ d. *)
(* Python None is the string "None"; the tri-state adjustment result is    *)
(* one of "True", "False", "None".                                         *)
(***************************************************************************)
EXTENDS Integers, Sequences, FiniteSets, TLC

\* ---------------------------------------------------------------- bounds
\* file writes (order store, status file, scheduler state) that the
\* operating system fails in one behaviour
MaxIOFaults == 1

\* phrases in a dialog text
MaxTextLen == 3

\* calls of save_order_to_txt for one order
MaxSaves == 3

\* calls of run() in a behaviour
MaxRuns == 2

\* order containers on the orders page
MaxOrders == 2

\* clicks on 'View more' in a run
MaxViewMore == 1

\* wake-ups of the scheduled loop before a next-run time is reached
MaxWait == 2

\* ------------------------------------------------------- program constants
max_attempts == 5
max_sub_attempts == 7

None == "None"

OrderIds == {"PO-1", "PO-2"}

\* hours of the day at which a success is recorded
Hours == {9, 14}

\* tracking number shown on the tracking panel of each order
TrackingOf(id) == IF id = "PO-1" THEN "TRK1" ELSE "TRK2"

\* outcomes of writing orders.json: written, open() raised (file untouched),
\* or json.dump raised after open() truncated the file
IOOutcomes == {"ok", "open_fails", "write_fails"}

\* outcomes of save_order_to_txt
TxtOutcomes == {"ok", "makedirs_fails", "open_fails"}

\* ------------------------------------------------------------ dict helpers
Has(d, k) == k \in DOMAIN d

Get(d, k, default) == IF k \in DOMAIN d THEN d[k] ELSE default

Del(d, k) == [x \in (DOMAIN d) \ {k} |-> d[x]]

Put(d, k, v) == (k :> v) @@ d

Min(S) == CHOOSE x \in S : \A y \in S : x <= y

\* ------------------------------------------------------------------ state
VARIABLES
  site,              \* what the site shows on the order's tracking panel
  queue,             \* orders_to_process not yet handed to process_order
  order,             \* the order dict process_order works on
  pc,                \* position inside process_orders / process_order
  result,            \* process_order's local `result`
  adjustment_result, \* value returned by attempt_price_adjustment
  attempt,           \* sub-attempt index of attempt_price_adjustment
  dialog_type,       \* last value returned by check_dialog_type
  ret,               \* value returned by the last process_order call
  store,             \* orders.json
  files,             \* status files in the orders folder: <<code, base>>
  stats,             \* TemuBot.stats counters
  success_data,      \* Scheduler.success_data (in memory)
  state_file,        \* scheduler_state.json
  hist,              \* observation record of the current process_order call
  iofaults,          \* file writes failed so far
  call,              \* a call of one of the module-level functions
  value,             \* what that call returned
  bot                \* the process running main(): its runs and the browser

vars == <<site, queue, order, pc, result, adjustment_result, attempt,
          dialog_type, ret, store, files, stats, success_data, state_file,
          hist, iofaults, call, value, bot>>

\* the variables of the order-processing state machine
botvars == <<site, queue, order, pc, result, adjustment_result, attempt,
             dialog_type, ret, store, files, stats, success_data, state_file,
             hist, iofaults>>

\* what an action of process_order leaves alone
outer == <<call, value, bot>>

\* no function call is under way; a call that has not returned yet
NoCall == [fn |-> "none"]

NoValue == [done |-> FALSE]

\* the steps of handle_price_adjustment_flow in the order the code takes
\* them: two waits for a heading, three controls each looked up, verified by
\* its text and clicked, and the wait for a confirmation phrase
FlowSteps ==
  << "heading", "request_btn", "request_verify", "request_click",
     "method_heading", "refund_method", "method_verify", "method_click",
     "submit_btn", "submit_verify", "submit_click", "confirmation" >>

\* the wizard has not been entered in this attempt
NoFlow == [stop |-> "not_run", clicked |-> <<>>]

\* what has been observed of the current process_order call
HistInit ==
  [ upserted     |-> FALSE,   \* save_order_data was called in this attempt
    delayed      |-> FALSE,   \* long_random_delay ran since the attempt began
    snapshots    |-> 0,       \* save_page_source calls in this attempt
    decisiveAt   |-> 0,       \* attempt in which the adjustment was decisive
    outcome      |-> "none",  \* how the last attempt ended
    started      |-> 0,       \* attempts started in this call
    saveFault    |-> FALSE,   \* the last store write was failed by the OS
    confirmed    |-> FALSE,   \* the wizard confirmed the adjustment
    detailFails  |-> 0,       \* attempts whose detail page did not load
    firstSubFail |-> FALSE,   \* attempt 1, sub-attempt 1: failure dialog
    clicks       |-> 0,       \* clicks of the control in the last sub-attempt
    last         |-> "none",  \* how the last sub-attempt went on to the next
    recovery     |-> <<>>,    \* what was done to the page before the next
    flow         |-> NoFlow ] \* the wizard invocation of this attempt

\* TemuBot.stats as __init__ creates it (the counters)
NewStats ==
  [ total_orders |-> 0, valid_orders |-> 0, processed |-> 0, success |-> 0,
    failures |-> 0, adjustment_available |-> 0,
    adjustment_not_available |-> 0 ]

\* main() is not running
NoBot == [mode |-> "none"]

\* the dict get_orders builds for an order that is valid
NewOrder(id) ==
  [ id         |-> id,
    date_str   |-> "date",
    date_obj   |-> "datetime",
    item_count |-> "1",
    valid      |-> TRUE,
    element    |-> "WebElement" ]

\* ------------------------------------------------------- pure functions

\* a classifier that tests the success keywords first
check_dialog_type_SuccessFirst(raises, fkw, skw, found_classes) ==
  IF raises THEN "unknown"
  ELSE IF skw THEN "success"
  ELSE IF fkw THEN "failure"
  ELSE IF found_classes >= 2 THEN "failure"
  ELSE "unknown"

\* a classifier that consults the structural markers before the success
\* keywords
check_dialog_type_ClassesFirst(raises, fkw, skw, found_classes) ==
  IF raises THEN "unknown"
  ELSE IF fkw THEN "failure"
  ELSE IF found_classes >= 2 THEN "failure"
  ELSE IF skw THEN "success"
  ELSE "unknown"

\* a classifier for which one structural marker is enough
check_dialog_type_AnyMarker(raises, fkw, skw, found_classes) ==
  IF raises THEN "unknown"
  ELSE IF fkw THEN "failure"
  ELSE IF skw THEN "success"
  ELSE IF found_classes >= 1 THEN "failure"
  ELSE "unknown"

\* check_dialog_type: the failure keywords are tested first, then the
\* success keywords, then the count of structural markers; an exception
\* while reading the dialog gives 'unknown'
check_dialog_type(raises, hasFailureKw, hasSuccessKw, found_classes) ==
  IF raises THEN "unknown"
  ELSE IF hasFailureKw THEN "failure"
  ELSE IF hasSuccessKw THEN "success"
  ELSE IF found_classes >= 2 THEN "failure"
  ELSE "unknown"

\* an off-by-one loop condition (<= instead of <)
LoopCondOffByOne(o, r) == o.attempts <= max_attempts /\ r = None

\* the loop condition of process_order
LoopCond(o, r) == o.attempts < max_attempts /\ r = None

\* status_map of save_order_to_txt
StatusCode(status) ==
  CASE status = "success"       -> "SUCESSO"
    [] status = "not_available" -> "INDISPONIVEL"
    [] status = "failed"        -> "FALHA"
    [] status = "not_attempted" -> "NAO_TENTADO"
    [] OTHER                    -> "DESCONHECIDO"

\* base name of the status file: tracking number, or the order id
BaseName(o) ==
  LET tracking_number ==
        IF Has(o, "tracking_info") THEN o.tracking_info.tracking_number
        ELSE "N/A"
  IN IF tracking_number # "N/A" THEN tracking_number ELSE Get(o, "id", "N/A")

\* files left by save_order_to_txt when nothing raises
WriteTxt(o, fs) ==
  LET base == BaseName(o)
      code == StatusCode(Get(o, "adjustment_status", "unknown"))
  IN {f \in fs : f[2] # base} \cup {<<code, base>>}

\* index of the first stored record with this id (0 when there is none)
FindExisting(orders, id) ==
  LET idx == {i \in 1..Len(orders) : orders[i].id = id}
  IN IF idx = {} THEN 0 ELSE Min(idx)

\* order['date_obj'].isoformat() raises AttributeError on a str
IsoformatRaises(o) ==
  Has(o, "date_obj") /\ o.date_obj # None /\ o.date_obj # "datetime"

\* save_order_data(order) of main.py: the caller's dict after the call,
\* orders.json after the call, and the value returned
save_order_data(o, st, io) ==
  LET o1 == IF Has(o, "element") THEN Del(o, "element") ELSE o
      o2 == IF Has(o1, "date_obj") /\ o1.date_obj = "datetime"
            THEN [o1 EXCEPT !.date_obj = "iso"] ELSE o1
      loaded == IF st.exists /\ st.readable THEN st.orders ELSE <<>>
      i == FindExisting(loaded, o2.id)
      merged == IF i # 0 THEN [loaded EXCEPT ![i] = o2 @@ loaded[i]]
                ELSE Append(loaded, o2)
  IN IF IsoformatRaises(o1)
     THEN [order |-> o1, store |-> st, ret |-> FALSE]
     ELSE CASE io = "ok" ->
                 [order |-> o2,
                  store |-> [exists |-> TRUE, readable |-> TRUE,
                             orders |-> merged],
                  ret |-> TRUE]
            [] io = "open_fails" ->
                 [order |-> o2, store |-> st, ret |-> FALSE]
            [] OTHER ->
                 [order |-> o2,
                  store |-> [exists |-> TRUE, readable |-> FALSE,
                             orders |-> <<>>],
                  ret |-> FALSE]


\* the fields process_order sets after get_tracking_info returned
TrackedOrder(o, tn) ==
  [ tracking_info        |-> [tracking_number |-> tn],
    adjustment_attempted |-> FALSE,
    adjustment_success   |-> FALSE,
    adjustment_status    |-> "not_attempted",
    last_error           |-> "",
    details              |-> [order_id |-> o.id] ] @@ o

\* Scheduler state: `hours` is the dict of success counts as the sequence of
\* its items [hour, count] in insertion order, `timestamps` the list of the
\* success timestamps, each reduced to its hour of the day
NoSuccessData == [hours |-> <<>>, timestamps |-> <<>>]

\* scheduler_state.json is [readable, hours, timestamps]; a file that is
\* missing or does not parse is not readable
NoStateFile == [readable |-> FALSE, hours |-> <<>>, timestamps |-> <<>>]

\* Scheduler.load_state
load_state(sf) ==
  IF sf.readable THEN [hours |-> sf.hours, timestamps |-> sf.timestamps]
  ELSE NoSuccessData

\* Scheduler.save_state: the file after the write, which open() or
\* json.dump may fail
save_state(sd, sf, io) ==
  CASE io = "ok" -> [readable |-> TRUE, hours |-> sd.hours,
                     timestamps |-> sd.timestamps]
    [] io = "open_fails" -> sf
    [] OTHER -> NoStateFile

\* Scheduler.update_success up to save_state: the count of the timestamp's
\* hour is incremented (or set to 1) and the timestamp is appended
update_success(sd, hour) ==
  LET at == {i \in 1..Len(sd.hours) : sd.hours[i].hour = hour}
  IN [ hours |-> IF at = {} THEN Append(sd.hours, [hour |-> hour, count |-> 1])
                 ELSE [i \in 1..Len(sd.hours) |->
                         IF i \in at
                         THEN [sd.hours[i] EXCEPT !.count = @ + 1]
                         ELSE sd.hours[i]],
       timestamps |-> Append(sd.timestamps, hour) ]

\* the mapping of the tri-state result to the order's status fields
MapStatus(o, v) ==
  CASE v = "True"  -> [o EXCEPT !.adjustment_status = "success",
                                !.adjustment_success = TRUE]
    [] v = "False" -> [o EXCEPT !.adjustment_status = "not_available"]
    [] OTHER       -> [o EXCEPT !.adjustment_status = "failed",
                                !.last_error = "Price adjustment failed"]

\* outcome of an attempt that ran to the end of the try block
Outcome(v) ==
  CASE v = "True" -> "success" [] v = "False" -> "not_available"
    [] OTHER -> "indeterminate"

\* what the except clause of process_order does to the order
ExceptFields(o) ==
  ("last_error" :> "exception") @@ ("adjustment_status" :> "failed") @@ o

\* ------------------------------------------------------------------- Init

\* there is no orders.json
NoStore == [exists |-> FALSE, readable |-> FALSE, orders |-> <<>>]

\* the record an earlier run left in orders.json for an order it adjusted
\* at its first attempt
PriorRecord(id) ==
  LET o == Put(TrackedOrder(Put(NewOrder(id), "attempts", 1),
                            TrackingOf(id)), "refund_amount", "$5")
      done == [MapStatus(o, "True") EXCEPT !.adjustment_attempted = TRUE]
  IN save_order_data(done, [exists |-> FALSE, readable |-> FALSE,
                            orders |-> <<>>], "ok").order

\* the files on disk when the run starts: none (first run), or those an
\* earlier run left after adjusting both orders
PriorDisk ==
  { [ store |-> [exists |-> FALSE, readable |-> FALSE, orders |-> <<>>],
      files |-> {},
      state_file |-> NoStateFile ],
    [ store |-> [exists |-> TRUE, readable |-> TRUE,
                 orders |-> <<PriorRecord("PO-2"), PriorRecord("PO-1")>>],
      files |-> {<<"SUCESSO", "TRK1">>, <<"SUCESSO", "TRK2">>},
      state_file |-> [readable |-> TRUE,
                      hours |-> <<[hour |-> 14, count |-> 2]>>,
                      timestamps |-> <<14, 14>>] ] }

\* a run of the bot whose batch is the order PO-1
Init ==
  /\ site \in [tracking_number : {"N/A", TrackingOf("PO-1")}]
  /\ queue = <<NewOrder("PO-1")>>
  /\ order = NewOrder("PO-1")
  /\ pc = "idle"
  /\ result = None
  /\ adjustment_result = None
  /\ attempt = 0
  /\ dialog_type = "unknown"
  /\ ret = FALSE
  /\ \E disk \in PriorDisk :
       /\ store = disk.store
       /\ files = disk.files
       /\ state_file = disk.state_file
       /\ success_data = load_state(disk.state_file)
  /\ stats = NewStats
  /\ hist = HistInit
  /\ iofaults = 0
  /\ call = NoCall
  /\ value = NoValue
  /\ bot = NoBot

\* ----------------------------------------------------------------- actions

\* the step suffers a failed file write when failed is TRUE
IOFault(failed) ==
  IF failed THEN iofaults < MaxIOFaults /\ iofaults' = iofaults + 1
  ELSE iofaults' = iofaults

\* process_orders hands the next order to process_order, which resets the
\* attempt counter and the result
StartOrder ==
  /\ UNCHANGED outer
  /\ pc = "idle" /\ queue # <<>>
  /\ order' = Put(Head(queue), "attempts", 0)
  /\ queue' = Tail(queue)
  /\ stats' = [stats EXCEPT !.processed = @ + 1]
  /\ result' = None
  /\ adjustment_result' = None
  /\ attempt' = 0
  /\ dialog_type' = "unknown"
  /\ hist' = HistInit
  /\ pc' = "while"
  /\ UNCHANGED <<site, ret, store, files, success_data, state_file,
                 iofaults>>

\* while order['attempts'] < max_attempts and result is None: attempts += 1
LoopEnter ==
  /\ UNCHANGED outer
  /\ pc = "while" /\ LoopCond(order, result)
  /\ order' = [order EXCEPT !.attempts = @ + 1]
  /\ hist' = [hist EXCEPT !.upserted = FALSE, !.delayed = FALSE,
                          !.snapshots = 0, !.started = @ + 1,
                          !.saveFault = FALSE, !.outcome = "running",
                          !.clicks = 0, !.flow = NoFlow]
  /\ pc' = "details"
  /\ UNCHANGED <<site, queue, result, adjustment_result, attempt, dialog_type,
                 ret, store, files, stats, success_data, state_file,
                 iofaults>>

\* the loop ends: return result is True
LoopExit ==
  /\ UNCHANGED outer
  /\ pc = "while" /\ ~LoopCond(order, result)
  /\ ret' = (result = "True")
  /\ pc' = "returned"
  /\ UNCHANGED <<site, queue, order, result, adjustment_result, attempt,
                 dialog_type, store, files, stats, success_data, state_file,
                 hist, iofaults>>

\* get_order_details_page: True after the marker appeared and the long
\* delay ran, False (without a delay) when the navigation or the wait raised;
\* on False process_order continues with the next iteration
GetOrderDetailsPage ==
  /\ UNCHANGED outer
  /\ pc = "details"
  /\ \E loaded \in BOOLEAN :
       /\ IF loaded
          THEN /\ pc' = "tracking"
               /\ hist' = [hist EXCEPT !.delayed = TRUE]
          ELSE /\ pc' = "while"
               /\ hist' = [hist EXCEPT !.outcome = "detail_failed",
                                       !.detailFails = @ + 1]
  /\ UNCHANGED <<site, queue, order, result, adjustment_result, attempt,
                 dialog_type, ret, store, files, stats, success_data,
                 state_file, iofaults>>

\* get_tracking_info raises (Track control or tracking panel missing), or
\* returns and process_order resets the adjustment fields of the order
GetTrackingInfo ==
  /\ UNCHANGED outer
  /\ pc = "tracking"
  /\ \E raises \in BOOLEAN, tn \in {site.tracking_number} :
       IF raises
       THEN /\ pc' = "except"
            /\ UNCHANGED <<order, attempt, dialog_type>>
       ELSE /\ order' = TrackedOrder(order, tn)
            /\ attempt' = 1
            /\ dialog_type' = "unknown"
            /\ pc' = "adjust"
  /\ UNCHANGED <<site, queue, result, adjustment_result, ret, store, files,
                 stats, success_data, state_file, hist, iofaults>>

\* attempt_price_adjustment returns v to process_order; h is the
\* observation record as the returning step leaves it
Return(v, h) ==
  /\ adjustment_result' = v
  /\ pc' = "map"
  /\ hist' = [h EXCEPT
                !.decisiveAt = IF v # None /\ @ = 0 THEN order.attempts ELSE @,
                !.confirmed = @ \/ (v = "True"),
                !.last = "none",
                !.recovery = <<>>,
                !.firstSubFail = @ \/ ( /\ v = "False" /\ pc = "adjust"
                                        /\ order.attempts = 1
                                        /\ attempt = 1 )]

\* attempt_price_adjustment answers False when its sub-attempts run out
ContinueReturnsFalse(h) ==
  IF attempt < max_sub_attempts
  THEN /\ attempt' = attempt + 1
       /\ hist' = h
       /\ UNCHANGED <<adjustment_result, pc>>
  ELSE /\ Return("False", h)
       /\ UNCHANGED attempt

\* the sub-attempt loop goes to its next iteration, or falls out of the
\* loop and returns None
Continue(h) ==
  IF attempt < max_sub_attempts
  THEN /\ attempt' = attempt + 1
       /\ hist' = h
       /\ UNCHANGED <<adjustment_result, pc>>
  ELSE /\ Return(None, h)
       /\ UNCHANGED attempt

\* a recovery that refreshes the page before it scrolls
not_found_recovery_refresh_first == <<"refresh", "scroll">>

\* the control was not found and sub-attempts are left: window.scrollBy,
\* then driver.refresh(), then continue
not_found_recovery == <<"scroll", "refresh">>

\* one sub-attempt of attempt_price_adjustment up to the dialog
\* classification
SubAttempt ==
  /\ UNCHANGED outer
  /\ pc = "adjust"
  /\ \E ev \in {"not_found", "refresh_raises", "verify_fails", "click_raises",
               "no_dialog", "dialog"} :
       LET unclicked == [hist EXCEPT !.clicks = 0, !.last = "other",
                                     !.recovery = <<>>]
           clicked   == [hist EXCEPT !.clicks = 1, !.last = "other",
                                     !.recovery = <<>>]
           not_found == [unclicked EXCEPT !.last = "not_found",
                                          !.recovery = not_found_recovery]
           closed    == [clicked EXCEPT !.last = "unknown_dialog"]
       IN CASE ev = "not_found" ->
                 Continue(not_found) /\ UNCHANGED dialog_type
            [] ev = "refresh_raises" ->
                 /\ attempt < max_sub_attempts
                 /\ Return(None, unclicked)
                 /\ UNCHANGED <<attempt, dialog_type>>
            [] ev = "verify_fails" ->
                 Continue(unclicked) /\ UNCHANGED dialog_type
            [] ev = "click_raises" ->
                 /\ Return(None, unclicked)
                 /\ UNCHANGED <<attempt, dialog_type>>
            [] ev = "no_dialog" ->
                 Continue(clicked) /\ UNCHANGED dialog_type
            [] OTHER ->
                 \E raises \in BOOLEAN, fkw \in BOOLEAN, skw \in BOOLEAN,
                    found_classes \in 0..3 :
                   LET dt == check_dialog_type(raises, fkw, skw,
                                               found_classes)
                   IN /\ dialog_type' = dt
                      /\ CASE dt = "success" ->
                                /\ pc' = "flow"
                                /\ hist' = clicked
                                /\ UNCHANGED <<attempt, adjustment_result>>
                           [] dt = "failure" ->
                                Return("False", clicked) /\ UNCHANGED attempt
                           [] OTHER -> Continue(closed)
  /\ UNCHANGED <<site, queue, order, result, ret, store, files, stats,
                 success_data, state_file, iofaults>>

\* a wizard that submits without selecting the refund option
ClickedBeforeSkipsOption(i) ==
  IF i <= 4 THEN <<>>
  ELSE IF i <= 11 THEN <<"request">>
  ELSE <<"request", "submit">>

\* the controls handle_price_adjustment_flow has clicked when it stops at
\* step number i of FlowSteps (a click that raises did not click)
ClickedBefore(i) ==
  IF i <= 4 THEN <<>>
  ELSE IF i <= 8 THEN <<"request">>
  ELSE IF i <= 11 THEN <<"request", "option">>
  ELSE <<"request", "option", "submit">>

\* the click steps end the wizard by an exception, caught by its outer
\* except clause; the other steps end it by their own `return False`
StopsByException(step) ==
  step \in {"request_click", "method_click", "submit_click"}

\* save_page_source runs in the outer except clause and when no
\* confirmation phrase appeared, and in no other failing step
FlowSnapshot(step) == StopsByException(step) \/ step = "confirmation"

\* handle_price_adjustment_flow: the wizard stops at one of its steps and
\* returns False, or passes all of them and returns True with the refund
\* amount attached to the order (unless reading the amount raised)
HandlePriceAdjustmentFlow ==
  /\ UNCHANGED outer
  /\ pc = "flow"
  /\ \E stop \in 0..Len(FlowSteps), amount \in {"N/A", "$5", "unread"} :
       IF stop = 0
       THEN /\ order' = IF amount = "unread" THEN order
                        ELSE Put(order, "refund_amount", amount)
            /\ Return("True",
                      [hist EXCEPT !.flow =
                         [stop |-> "none",
                          clicked |-> ClickedBefore(Len(FlowSteps) + 1)]])
       ELSE /\ amount = "N/A"
            /\ UNCHANGED order
            /\ Return("False",
                      [hist EXCEPT
                         !.flow = [stop |-> FlowSteps[stop],
                                   clicked |-> ClickedBefore(stop)],
                         !.snapshots =
                           IF FlowSnapshot(FlowSteps[stop]) THEN @ + 1
                           ELSE @])
  /\ UNCHANGED <<site, queue, result, attempt, dialog_type, ret, store,
                 files, stats, success_data, state_file, iofaults>>

\* process_order maps adjustment_result; on True the scheduler is updated
\* with datetime.now() before the order's fields are set, and save_state
\* may raise
MapResult ==
  /\ UNCHANGED outer
  /\ pc = "map"
  /\ \E io \in IOOutcomes, hour \in Hours :
       /\ IOFault(io # "ok")
       /\ CASE adjustment_result = "True" ->
                 /\ stats' = [stats EXCEPT !.success = @ + 1]
                 /\ success_data' = update_success(success_data, hour)
                 /\ state_file' = save_state(success_data', state_file, io)
                 /\ IF io # "ok"
                    THEN /\ pc' = "except"
                         /\ UNCHANGED <<order, result>>
                    ELSE /\ order' = [MapStatus(order, "True")
                                        EXCEPT !.adjustment_attempted = TRUE]
                         /\ result' = "True"
                         /\ pc' = "save"
            [] adjustment_result = "False" ->
                 /\ io = "ok" /\ hour = 14
                 /\ stats' = [stats EXCEPT
                                !.adjustment_not_available = @ + 1]
                 /\ order' = [MapStatus(order, "False")
                                EXCEPT !.adjustment_attempted = TRUE]
                 /\ result' = "False"
                 /\ pc' = "save"
                 /\ UNCHANGED <<success_data, state_file>>
            [] OTHER ->
                 /\ io = "ok" /\ hour = 14
                 /\ stats' = [stats EXCEPT !.failures = @ + 1]
                 /\ order' = [MapStatus(order, None)
                                EXCEPT !.adjustment_attempted = TRUE]
                 /\ pc' = "save"
                 /\ UNCHANGED <<result, success_data, state_file>>
  /\ UNCHANGED <<site, queue, adjustment_result, attempt, dialog_type, ret,
                 store, files, hist>>

\* save_order_data(order); its return value is not looked at
SaveOrderData ==
  /\ UNCHANGED outer
  /\ pc = "save"
  /\ \E io \in IOOutcomes :
       LET r == save_order_data(order, store, io)
       IN /\ IOFault(io # "ok")
          /\ order' = r.order
          /\ store' = r.store
          /\ hist' = [hist EXCEPT !.upserted = TRUE,
                                  !.saveFault = (io # "ok")]
  /\ pc' = "txt"
  /\ UNCHANGED <<site, queue, result, adjustment_result, attempt, dialog_type,
                 ret, files, stats, success_data, state_file>>

\* save_order_to_txt(order): raises when os.makedirs fails (nothing was
\* touched yet) or when open() fails (the old files are already removed)
SaveOrderToTxt ==
  /\ UNCHANGED outer
  /\ pc = "txt"
  /\ \E io \in TxtOutcomes :
       /\ IOFault(io # "ok")
       /\ CASE io = "ok" ->
                 /\ files' = WriteTxt(order, files)
                 /\ pc' = "nav"
            [] io = "open_fails" ->
                 /\ files' = {f \in files : f[2] # BaseName(order)}
                 /\ pc' = "except"
            [] OTHER ->
                 /\ files' = files
                 /\ pc' = "except"
  /\ UNCHANGED <<site, queue, order, result, adjustment_result, attempt,
                 dialog_type, ret, store, stats, success_data, state_file,
                 hist>>

\* navigate_to_orders_page at the end of the try block; it never raises and
\* its long delay runs only when the page loaded
NavigateToOrdersPage ==
  /\ UNCHANGED outer
  /\ pc = "nav"
  /\ \E loaded \in BOOLEAN :
       /\ hist' = [hist EXCEPT !.delayed = @ \/ loaded,
                               !.outcome = Outcome(adjustment_result)]
  /\ pc' = "while"
  /\ UNCHANGED <<site, queue, order, result, adjustment_result, attempt,
                 dialog_type, ret, store, files, stats, success_data,
                 state_file, iofaults>>

\* except Exception: count the failure, snapshot the page, mark the order
\* failed, go back to the orders page and wait before the next attempt
ExceptHandler ==
  /\ UNCHANGED outer
  /\ pc = "except"
  /\ stats' = [stats EXCEPT !.failures = @ + 1]
  /\ order' = ExceptFields(order)
  /\ hist' = [hist EXCEPT !.snapshots = @ + 1, !.delayed = TRUE,
                          !.outcome = "exception"]
  /\ pc' = "while"
  /\ UNCHANGED <<site, queue, result, adjustment_result, attempt, dialog_type,
                 ret, store, files, success_data, state_file, iofaults>>

\* process_orders after process_order returned: delay, next order
AfterOrder ==
  /\ UNCHANGED outer
  /\ pc = "returned"
  /\ pc' = "idle"
  /\ UNCHANGED <<site, queue, order, result, adjustment_result, attempt,
                 dialog_type, ret, store, files, stats, success_data,
                 state_file, hist, iofaults>>

Next ==
  \/ StartOrder
  \/ LoopEnter
  \/ LoopExit
  \/ GetOrderDetailsPage
  \/ GetTrackingInfo
  \/ SubAttempt
  \/ HandlePriceAdjustmentFlow
  \/ MapResult
  \/ SaveOrderData
  \/ SaveOrderToTxt
  \/ NavigateToOrdersPage
  \/ ExceptHandler
  \/ AfterOrder

Spec == Init /\ [][Next]_vars


\* ------------------------------------------- the module-level functions

\* --- dialog texts
\* A dialog text is a sequence of phrases separated by blanks.  The phrases
\* are those the indicators below are made of, each in the spelling of the
\* indicator and in another capitalisation, and two phrases of no indicator.
Phrases ==
  { "not eligible for", "Not Eligible For", "price adjustment",
    "Price Adjustment", "request a", "Request a", "refunded", "REFUNDED",
    "thank you", "close" }

\* str.lower() of a phrase
Lower(w) ==
  CASE w = "Not Eligible For" -> "not eligible for"
    [] w = "Price Adjustment" -> "price adjustment"
    [] w = "Request a"        -> "request a"
    [] w = "REFUNDED"         -> "refunded"
    [] OTHER                  -> w

\* dialog.text.lower()
lower(text) == [i \in DOMAIN text |-> Lower(text[i])]

\* re.search(indicator, text): the indicator occurs somewhere in the text
search(indicator, text) ==
  \E i \in 0..(Len(text) - Len(indicator)) :
    \A j \in 1..Len(indicator) : text[i + j] = indicator[j]

\* the failure indicators that the phrases can spell
failure_indicators ==
  { <<"not eligible for", "price adjustment">>, <<"refunded">> }

\* the success indicators that the phrases can spell
success_indicators ==
  { <<"request a", "price adjustment">>, <<"price adjustment">> }

\* check_dialog_type on what the page shows: a dialog that may be absent (the
\* wait for it raises), its text, and the number of structural markers
CheckDialog(dialog, found_classes) ==
  LET dialog_text == lower(dialog.text)
  IN check_dialog_type(
       ~dialog.present,
       \E indicator \in failure_indicators : search(indicator, dialog_text),
       \E indicator \in success_indicators : search(indicator, dialog_text),
       found_classes)

\* --- dates
\* A datetime is [year, month, day, minute], minute counting from midnight;
\* Python's None is NoDate.
NoDate == [none |-> TRUE]

IsLeap(y) == (y % 4 = 0 /\ y % 100 # 0) \/ y % 400 = 0

DaysInMonth(y, m) ==
  CASE m = 2 -> IF IsLeap(y) THEN 29 ELSE 28
    [] m \in {4, 6, 9, 11} -> 30
    [] OTHER -> 31

\* the values datetime() accepts
ValidDate(y, m, d) == m \in 1..12 /\ d \in 1..DaysInMonth(y, m)

RECURSIVE DaysBeforeMonth(_, _)
DaysBeforeMonth(y, m) ==
  IF m = 1 THEN 0 ELSE DaysBeforeMonth(y, m - 1) + DaysInMonth(y, m - 1)

\* date.toordinal(): days since 0001-01-01, that day being 1
toordinal(dt) ==
  LET y == dt.year - 1
  IN y * 365 + (y \div 4) - (y \div 100) + (y \div 400)
       + DaysBeforeMonth(dt.year, dt.month) + dt.day

\* the datetime as a count of minutes, on which datetimes are compared and
\* timedeltas are added
Minutes(dt) == toordinal(dt) * 1440 + dt.minute

\* dt + timedelta(days=1)
PlusOneDay(dt) ==
  IF dt.day < DaysInMonth(dt.year, dt.month)
  THEN [dt EXCEPT !.day = @ + 1]
  ELSE IF dt.month < 12
  THEN [dt EXCEPT !.month = @ + 1, !.day = 1]
  ELSE [dt EXCEPT !.year = @ + 1, !.month = 1, !.day = 1]

\* --- parse_order_date
\* A date string is [prefix, shape, a, b, year]: the text before the date
\* ("" or "Order time: "), how the date is written, and its numbers in the
\* order they are written.  In the shapes with a month name, a is the day
\* and b the number of the month that is named.
Shapes ==
  { "Mon D, YYYY", "Mon D YYYY", "D Mon YYYY", "Mon D", "N/N/YYYY",
    "N-N-YYYY", "none" }

\* the regular expressions of `patterns`, in their order: the shapes in
\* which re.search finds a match, and the shape of match.group(1) with the
\* comma removed
patterns ==
  << [ matches |-> {"Mon D, YYYY", "Mon D YYYY"}, part |-> "Mon D YYYY" ],
     [ matches |-> {"D Mon YYYY"},                part |-> "D Mon YYYY" ],
     [ matches |-> {"Mon D", "Mon D, YYYY", "Mon D YYYY", "D Mon YYYY"},
       part |-> "Mon D" ],
     [ matches |-> {"N/N/YYYY"},                  part |-> "N/N/YYYY" ],
     [ matches |-> {"N-N-YYYY"},                  part |-> "N-N-YYYY" ] >>

\* the formats tried on the date part, in their order: the shape each one
\* reads, and whether the first number is the day
formats ==
  << [ fmt |-> "%b %d %Y", reads |-> "Mon D YYYY", day_first |-> TRUE ],
     [ fmt |-> "%d %b %Y", reads |-> "D Mon YYYY", day_first |-> TRUE ],
     [ fmt |-> "%d/%m/%Y", reads |-> "N/N/YYYY",   day_first |-> TRUE ],
     [ fmt |-> "%m/%d/%Y", reads |-> "N/N/YYYY",   day_first |-> FALSE ] >>

\* datetime.strptime(date_part, format): NoDate stands for the ValueError
strptime(part, s, f) ==
  LET d == IF f.day_first THEN s.a ELSE s.b
      m == IF f.day_first THEN s.b ELSE s.a
  IN IF part = f.reads /\ ValidDate(s.year, m, d)
     THEN [year |-> s.year, month |-> m, day |-> d, minute |-> 0]
     ELSE NoDate

\* the nested try blocks: the first format that parses the date part
RECURSIVE TryFormats(_, _, _)
TryFormats(part, s, k) ==
  IF k > Len(formats) THEN NoDate
  ELSE LET r == strptime(part, s, formats[k])
       IN IF r # NoDate THEN r ELSE TryFormats(part, s, k + 1)

\* for pattern in patterns: the first pattern that matches and whose date
\* part one of the formats parses
RECURSIVE TryPatterns(_, _)
TryPatterns(s, k) ==
  IF k > Len(patterns) THEN NoDate
  ELSE LET r == IF s.shape \in patterns[k].matches
                THEN TryFormats(patterns[k].part, s, 1) ELSE NoDate
       IN IF r # NoDate THEN r ELSE TryPatterns(s, k + 1)

RECURSIVE parse_order_date(_)
parse_order_date(s) ==
  LET r == TryPatterns(s, 1)
  IN IF r # NoDate THEN r
     ELSE IF s.prefix = "Order time: "
     THEN parse_order_date([s EXCEPT !.prefix = ""])
     ELSE NoDate

\* --- validate_order_date
validate_order_date(order_date, now) ==
  IF order_date = NoDate THEN FALSE
  ELSE LET thirty_days_ago == Minutes(now) - 30 * 1440
       IN Minutes(order_date) >= thirty_days_ago

\* --- Scheduler.get_next_run_time, no success recorded
\* random.randint(9, 17)
default_hours == 9..17

\* dt - timedelta(days=1)
MinusOneDay(dt) ==
  IF dt.day > 1 THEN [dt EXCEPT !.day = @ - 1]
  ELSE IF dt.month > 1
  THEN [dt EXCEPT !.month = @ - 1,
                  !.day = DaysInMonth(dt.year, dt.month - 1)]
  ELSE [dt EXCEPT !.year = @ - 1, !.month = 12, !.day = 31]

\* dt + timedelta(minutes=w), for w in -30..30
PlusMinutes(dt, w) ==
  LET m == dt.minute + w
  IN IF m < 0 THEN [MinusOneDay(dt) EXCEPT !.minute = m + 1440]
     ELSE IF m >= 1440 THEN [PlusOneDay(dt) EXCEPT !.minute = m - 1440]
     ELSE [dt EXCEPT !.minute = m]

\* a fallback that takes the first hour of the histogram
best_hour_first(hours) == hours[1].hour

\* max(hours.items(), key=count)[0]: the first item with the highest count
best_hour(hours) ==
  LET top == {i \in 1..Len(hours) :
                \A j \in 1..Len(hours) : hours[j].count <= hours[i].count}
  IN hours[Min(top)].hour

\* max(9, min(21, predicted_hour))
clamp(predicted_hour) ==
  IF predicted_hour < 9 THEN 9
  ELSE IF predicted_hour > 21 THEN 21 ELSE predicted_hour

\* a run time on the day of the call
default_run_time_today(now, default_hour) ==
  [now EXCEPT !.minute = default_hour * 60]

\* datetime.now().replace(hour=default_hour, minute=0, second=0)
\*   + timedelta(days=1)
default_run_time(now, default_hour) ==
  PlusOneDay([now EXCEPT !.minute = default_hour * 60])

\* Scheduler.get_next_run_time.  rnd holds what the call draws or is given:
\* default_hour, window_minutes, and for the trend model whether fitting or
\* predicting raises and else the hour round(prediction % 24) in 0..24
get_next_run_time(sd, now, rnd) ==
  IF sd.timestamps = <<>> THEN default_run_time(now, rnd.default_hour)
  ELSE LET predicted_hour == IF rnd.model_raises THEN best_hour(sd.hours)
                             ELSE clamp(rnd.prediction)
           next_run == PlusMinutes([now EXCEPT !.minute = predicted_hour * 60],
                                   rnd.window_minutes)
       IN IF Minutes(next_run) < Minutes(now) THEN PlusOneDay(next_run)
          ELSE next_run

\* --- the locator resolvers
\* What a strategy meets on the page: "match", "timeout" (nothing found in
\* its wait) or "error" (any other exception of the driver).  A resolver
\* returns [kind, index, tried]: a match of strategy `index`, "not_found",
\* or "raised", having tried the strategies 1..tried.

\* get_order_elements: only TimeoutException is caught; not found is []
RECURSIVE get_order_elements(_, _)
get_order_elements(page, i) ==
  IF i > Len(page) THEN [kind |-> "not_found", index |-> 0, tried |-> i - 1]
  ELSE CASE page[i] = "match" -> [kind |-> "match", index |-> i, tried |-> i]
         [] page[i] = "timeout" -> get_order_elements(page, i + 1)
         [] OTHER -> [kind |-> "raised", index |-> 0, tried |-> i]

\* a resolver that goes through its strategies from the last to the first
RECURSIVE safe_find_element_backwards(_, _)
safe_find_element_backwards(page, i) ==
  LET k == Len(page) + 1 - i
  IN IF i > Len(page)
     THEN [kind |-> "not_found", index |-> 0, tried |-> i - 1]
     ELSE IF page[k] = "match"
     THEN [kind |-> "match", index |-> k, tried |-> i]
     ELSE safe_find_element_backwards(page, i + 1)

\* safe_find_element, and the Track control loop of get_tracking_info: every
\* exception of a strategy is caught; not found is NoSuchElementException
RECURSIVE safe_find_element(_, _)
safe_find_element(page, i) ==
  IF i > Len(page) THEN [kind |-> "not_found", index |-> 0, tried |-> i - 1]
  ELSE IF page[i] = "match"
  THEN [kind |-> "match", index |-> i, tried |-> i]
  ELSE safe_find_element(page, i + 1)

\* --- the enumeration of the orders
\* an order container of the orders page: for each field "absent" when no
\* strategy locates its element, else its text: an order id or a text
\* without one, a date within the last 30 days, an older one or a text
\* that is no date, an item count or a text without one
Containers ==
  [ id : {"absent", "unmatched", "PO-1", "PO-2"},
    date : {"absent", "unparsable", "recent", "thirty_days", "old"},
    items : {"absent", "unmatched", "3"} ]

\* datetime.now() while get_orders runs
EnumerationTime == [year |-> 2024, month |-> 1, day |-> 31, minute |-> 720]

\* the text of the date element: 29/01/2024, 01/01/2024 (30 days before the
\* enumeration), 31/12/2023, or 29-01-2024, which no format reads
DateText(date) ==
  CASE date = "recent" ->
         [prefix |-> "", shape |-> "N/N/YYYY", a |-> 29, b |-> 1,
          year |-> 2024]
    [] date = "thirty_days" ->
         [prefix |-> "Order time: ", shape |-> "N/N/YYYY", a |-> 1, b |-> 1,
          year |-> 2024]
    [] date = "old" ->
         [prefix |-> "", shape |-> "N/N/YYYY", a |-> 31, b |-> 12,
          year |-> 2023]
    [] OTHER ->
         [prefix |-> "", shape |-> "N-N-YYYY", a |-> 29, b |-> 1,
          year |-> 2024]

\* the dict get_orders builds from a container whose fields were located
ExtractOrder(c) ==
  LET order_date == parse_order_date(DateText(c.date))
  IN [ id         |-> IF c.id = "unmatched" THEN "N/A" ELSE c.id,
       date_str   |-> c.date,
       date_obj   |-> IF order_date # NoDate THEN "datetime" ELSE None,
       item_count |-> IF c.items = "unmatched" THEN "N/A" ELSE c.items,
       valid      |-> IF order_date # NoDate
                      THEN validate_order_date(order_date, EnumerationTime)
                      ELSE FALSE,
       element    |-> "WebElement" ]

\* the three safe_find_element calls of a container return
Located(c) == c.id # "absent" /\ c.date # "absent" /\ c.items # "absent"

\* the loop over order_elements: a container one of whose fields is not
\* located raises NoSuchElementException and is left out
RECURSIVE ExtractAll(_)
ExtractAll(cs) ==
  IF cs = <<>> THEN <<>>
  ELSE IF Located(Head(cs))
  THEN <<ExtractOrder(Head(cs))>> \o ExtractAll(Tail(cs))
  ELSE ExtractAll(Tail(cs))

\* get_orders on a page: strategies is what the three strategies of
\* get_order_elements meet, containers the elements a match returns
get_orders(page) ==
  IF get_order_elements(page.strategies, 1).kind = "match"
  THEN ExtractAll(page.containers)
  ELSE <<>>

\* a selection that takes every enumerated order
valid_orders_all(orders) == orders

\* [order for order in orders if order['valid']]
valid_orders(orders) == SelectSeq(orders, LAMBDA o : o.valid)

\* valid_orders[:min(10, len(valid_orders))]
orders_to_process(orders) ==
  SubSeq(valid_orders(orders), 1, Min({10, Len(valid_orders(orders))}))

\* a batch loop that ends at the first order process_order returns False for
orders_left_after_success(q, r) == IF r THEN q ELSE <<>>

\* the orders the for loop of process_orders still visits after
\* process_order returned r
orders_left(q, r) == q

Ids(orders) == [i \in 1..Len(orders) |-> orders[i].id]

\* orders pages of up to MaxOrders containers
PagesOf(containers) ==
  { [strategies |-> <<"timeout", "timeout", "timeout">>, containers |-> <<>>],
    [strategies |-> <<"timeout", "error", "match">>, containers |-> <<>>] }
  \cup { [strategies |-> s, containers |-> cs] :
           s \in {<<"match", "match", "match">>,
                  <<"timeout", "timeout", "match">>},
           cs \in UNION {[1..n -> containers] : n \in 1..MaxOrders} }

\* --- save_order_to_txt, called several times for one order
\* the order as it is handed to save_order_to_txt
TxtOrder(id, status, tn) ==
  [id |-> id, adjustment_status |-> status,
   tracking_info |-> [tracking_number |-> tn]]

\* the folder after the calls for orders[1], orders[2], ..., none raising
RECURSIVE SaveAll(_, _)
SaveAll(orders, fs) ==
  IF orders = <<>> THEN fs
  ELSE SaveAll(Tail(orders), WriteTxt(Head(orders), fs))


\* --- the calls
Texts == UNION {[1..n -> Phrases] : n \in 0..MaxTextLen}

Dialogs ==
  {[present |-> FALSE, text |-> <<>>]}
    \cup {[present |-> TRUE, text |-> t] : t \in Texts}

\* date strings: the numbers written are taken from DateNumbers, and a month
\* that is written by its name is one of the twelve
DateNumbers == {1, 2, 12, 13, 29, 31}

Years == {2023, 2024}

DateStrings ==
  { s \in [prefix : {"", "Order time: "}, shape : Shapes, a : DateNumbers,
           b : DateNumbers, year : Years] :
      s.shape \in {"Mon D, YYYY", "Mon D YYYY", "D Mon YYYY", "Mon D"}
        => s.b \in 1..12 }

\* the moments datetime.now() returns
Nows ==
  { dt \in [year : Years, month : {1, 2, 12}, day : {1, 29, 31},
            minute : {0, 1, 720, 1439}] :
      ValidDate(dt.year, dt.month, dt.day) }

\* the order dates of get_orders: what parse_order_date returns (None
\* included, which validate_order_date tests for itself)
OrderDates == {parse_order_date(s) : s \in DateStrings}

\* scheduler states with successes on record: 10 at hour 14 after 1 at
\* hour 9, one success at hour 0, and a tie of two hours
Histories ==
  { [ hours |-> <<[hour |-> 9, count |-> 1], [hour |-> 14, count |-> 10]>>,
      timestamps |-> <<9>> \o [i \in 1..10 |-> 14] ],
    [ hours |-> <<[hour |-> 0, count |-> 1]>>, timestamps |-> <<0>> ],
    [ hours |-> <<[hour |-> 23, count |-> 1], [hour |-> 9, count |-> 1]>>,
      timestamps |-> <<23, 9>> ] }

\* the trend model: it raises, or predicts an hour
TrendModels ==
  {[model_raises |-> TRUE, prediction |-> 0]}
    \cup {[model_raises |-> FALSE, prediction |-> h] :
            h \in {0, 8, 9, 15, 21, 24}}

StrategyOutcomes == {"match", "timeout", "error"}

\* calls of save_order_to_txt for the order PO-1: its status and the
\* tracking number extracted at each call
TxtCalls ==
  UNION { [1..n -> {TxtOrder("PO-1", st, tn) :
                      st \in {"success", "not_available", "failed"},
                      tn \in {"N/A", TrackingOf("PO-1")}}] :
          n \in 1..MaxSaves }

\* the order dict at the first save_order_data call of process_order, and
\* at the call of its second attempt
SavedOrders ==
  LET first == Put(NewOrder("PO-1"), "attempts", 1)
      second == save_order_data(first, NoStore, "ok").order
  IN {first, [second EXCEPT !.attempts = 2]}

\* orders.json before a call: absent, not parsable, or holding the record
\* of an earlier run for this order or for another one
Stores ==
  { NoStore,
    [exists |-> TRUE, readable |-> FALSE, orders |-> <<>>],
    [exists |-> TRUE, readable |-> TRUE, orders |-> <<PriorRecord("PO-1")>>],
    [exists |-> TRUE, readable |-> TRUE, orders |-> <<PriorRecord("PO-2")>>] }

Calls ==
  {[fn |-> "check_dialog_type", dialog |-> d, found_classes |-> n] :
     d \in Dialogs, n \in 0..3}
  \cup {[fn |-> "parse_order_date", date_str |-> s] : s \in DateStrings}
  \cup {[fn |-> "validate_order_date", order_date |-> d, now |-> n] :
          d \in OrderDates, n \in Nows}
  \cup {[fn |-> "get_next_run_time", success_data |-> NoSuccessData,
         now |-> n,
         rnd |-> [default_hour |-> h, model_raises |-> FALSE,
                  prediction |-> 0, window_minutes |-> 0]] :
          n \in Nows, h \in default_hours}
  \cup {[fn |-> "get_next_run_time", success_data |-> sd, now |-> n,
         rnd |-> [default_hour |-> 9, model_raises |-> r.model_raises,
                  prediction |-> r.prediction, window_minutes |-> w]] :
          sd \in Histories, n \in Nows, r \in TrendModels,
          w \in {-30, -1, 0, 30}}
  \cup {[fn |-> "get_order_elements", page |-> p] :
          p \in [1..3 -> StrategyOutcomes]}
  \cup {[fn |-> "safe_find_element", page |-> p] :
          p \in [1..2 -> StrategyOutcomes] \cup [1..3 -> StrategyOutcomes]}
  \cup {[fn |-> "track_btn", page |-> p] :
          p \in [1..7 -> StrategyOutcomes]}
  \cup {[fn |-> "save_order_to_txt", orders |-> o] : o \in TxtCalls}
  \cup {[fn |-> "get_orders", page |-> p] : p \in PagesOf(Containers)}
  \cup {[fn |-> "save_order_data", order |-> o, store |-> st, io |-> io] :
          o \in SavedOrders, st \in Stores, io \in IOOutcomes}

\* one call of one of the functions, the bot being idle
FunctionsInit ==
  /\ call \in Calls
  /\ value = NoValue
  /\ site = [tracking_number |-> "N/A"]
  /\ queue = <<>>
  /\ order = NewOrder("PO-1")
  /\ pc = "idle"
  /\ result = None
  /\ adjustment_result = None
  /\ attempt = 0
  /\ dialog_type = "unknown"
  /\ ret = FALSE
  /\ store = [exists |-> FALSE, readable |-> FALSE, orders |-> <<>>]
  /\ files = {}
  /\ state_file = NoStateFile
  /\ success_data = NoSuccessData
  /\ stats = NewStats
  /\ hist = HistInit
  /\ iofaults = 0
  /\ bot = NoBot

\* the call returns v
Returns(v) ==
  /\ ~value.done
  /\ value' = [done |-> TRUE, v |-> v]
  /\ UNCHANGED <<call, botvars, bot>>

CheckDialogType ==
  /\ call.fn = "check_dialog_type"
  /\ Returns(CheckDialog(call.dialog, call.found_classes))

ParseOrderDate ==
  /\ call.fn = "parse_order_date"
  /\ Returns(parse_order_date(call.date_str))

ValidateOrderDate ==
  /\ call.fn = "validate_order_date"
  /\ Returns(validate_order_date(call.order_date, call.now))

GetNextRunTime ==
  /\ call.fn = "get_next_run_time"
  /\ Returns(get_next_run_time(call.success_data, call.now, call.rnd))

GetOrderElements ==
  /\ call.fn = "get_order_elements"
  /\ Returns(get_order_elements(call.page, 1))

\* safe_find_element on an order container, and the Track control loop
SafeFindElement ==
  /\ call.fn \in {"safe_find_element", "track_btn"}
  /\ Returns(safe_find_element(call.page, 1))

\* save_order_to_txt called for each order of the call, the folder being
\* empty before
SaveOrderToTxtCalls ==
  /\ call.fn = "save_order_to_txt"
  /\ Returns(SaveAll(call.orders, {}))

\* save_order_data(order) of main.py with orders.json as the call gives it
SaveOrderDataCall ==
  /\ call.fn = "save_order_data"
  /\ Returns(save_order_data(call.order, call.store, call.io))

\* get_orders on an orders page
GetOrdersCall ==
  /\ call.fn = "get_orders"
  /\ Returns(get_orders(call.page))

FunctionsNext ==
  \/ CheckDialogType
  \/ ParseOrderDate
  \/ ValidateOrderDate
  \/ GetNextRunTime
  \/ GetOrderElements
  \/ SafeFindElement
  \/ SaveOrderToTxtCalls
  \/ GetOrdersCall
  \/ SaveOrderDataCall

Functions == FunctionsInit /\ [][FunctionsNext]_vars

\* ------------------------------------------------------------- runs of main()
\* The process of main(): TemuBot() is constructed once, run() is called once
\* (--now) or from the scheduled loop; a run logs in, enumerates the orders,
\* hands the selected ones to process_order and prints the summary.  Here an
\* iteration of process_order's loop is one step.

\* the counters of stats
Counters(st) ==
  [ total_orders |-> st.total_orders, valid_orders |-> st.valid_orders,
    processed |-> st.processed, success |-> st.success,
    failures |-> st.failures,
    adjustment_not_available |-> st.adjustment_not_available ]

\* login() has not been called in this run
NoLogin == [done |-> FALSE]

\* login() has returned True and the run has gone on
LoggedIn == [done |-> TRUE, ret |-> TRUE, left |-> TRUE]

\* the process after TemuBot() in main(); runs counts the calls of run() of
\* the behaviour, the other fields describe the current run
NewBot(mode, runs) ==
  [ mode       |-> mode,      \* --now or --schedule
    runs       |-> runs,      \* calls of run() so far
    calls      |-> 0,         \* calls of run() by this process
    schedules  |-> 0,         \* next-run times obtained by the loop
    wait       |-> 0,         \* wake-ups until next_run is reached
    driver     |-> "none",    \* self.driver: none, open or quit
    quits      |-> 0,         \* driver.quit() calls of the run
    summaries  |-> 0,         \* print_summary calls of the run
    at_start   |-> Counters(NewStats), \* the counters when run() was entered
    login      |-> NoLogin,   \* the login() call of the run
    view_more  |-> 0,         \* clicks on 'View more' in the loading loop
    enumerated |-> FALSE,     \* get_orders was called
    selected   |-> <<>>,      \* ids of orders_to_process
    handed     |-> <<>>,      \* ids handed to process_order
    rets       |-> <<>> ]     \* what process_order returned

\* what login() meets: whether the login page loads, the state of the cached
\* session (no file, valid, marker not found, or an error while restoring),
\* the e-mail and password fields ("absent", "no_button" when the field is
\* there and its button is not, "entered"), the CAPTCHA gate, the post-login
\* marker and the write of the session file
LoginPage(loads, cached, email, captcha, password, marker, save) ==
  [ loads |-> loads, cached |-> cached, email |-> email,
    captcha |-> captcha, password |-> password, marker |-> marker,
    save |-> save ]

LoginPages ==
  { LoginPage(TRUE, "valid", "entered", TRUE, "entered", TRUE, TRUE),
    LoginPage(TRUE, "no_file", "entered", TRUE, "entered", TRUE, TRUE),
    LoginPage(TRUE, "no_file", "entered", TRUE, "entered", TRUE, FALSE),
    LoginPage(TRUE, "invalid", "absent", TRUE, "entered", TRUE, TRUE),
    LoginPage(TRUE, "no_file", "no_button", TRUE, "entered", TRUE, TRUE),
    LoginPage(TRUE, "raises", "entered", FALSE, "entered", TRUE, TRUE),
    LoginPage(TRUE, "no_file", "entered", TRUE, "absent", TRUE, TRUE),
    LoginPage(TRUE, "invalid", "entered", TRUE, "no_button", TRUE, TRUE),
    LoginPage(TRUE, "raises", "entered", TRUE, "entered", FALSE, TRUE),
    LoginPage(FALSE, "valid", "entered", TRUE, "entered", TRUE, TRUE) }

\* a session check that takes every readable session file for a valid one
load_cached_session_any_file(cached) == cached \in {"valid", "invalid"}

\* load_cached_session: True when the cookies were restored and the marker
\* appeared; False when there is no file, the marker does not appear or
\* anything raises
load_cached_session(cached) == cached = "valid"

\* a login that does not look at what the CAPTCHA gate returned
login_ignoring_captcha(page) ==
  [ done |-> TRUE, page |-> page, ret |-> page.loads, entry |-> page.loads,
    typed |-> IF page.loads THEN {"email", "password"} ELSE {},
    captcha |-> IF page.loads THEN 1 ELSE 0,
    session_saves |-> IF page.loads THEN 1 ELSE 0 ]

\* login(): the value returned, whether the credential entry was begun,
\* the fields typed into, the calls of captcha_solver.solve and of
\* save_session
login(page) ==
  LET r == [ done |-> TRUE, page |-> page, ret |-> FALSE, entry |-> FALSE,
             typed |-> {}, captcha |-> 0, session_saves |-> 0 ]
      email == IF page.email = "absent" THEN {} ELSE {"email"}
  IN IF ~page.loads THEN r
     ELSE IF load_cached_session(page.cached) THEN [r EXCEPT !.ret = TRUE]
     ELSE IF ~page.captcha
     THEN [r EXCEPT !.entry = TRUE, !.typed = email, !.captcha = 1]
     ELSE IF page.password = "absent"
     THEN [r EXCEPT !.entry = TRUE, !.typed = email, !.captcha = 1]
     ELSE IF page.password = "no_button" \/ ~page.marker
     THEN [r EXCEPT !.entry = TRUE, !.typed = email \cup {"password"},
                    !.captcha = 1]
     ELSE [r EXCEPT !.ret = TRUE, !.entry = TRUE,
                    !.typed = email \cup {"password"}, !.captcha = 1,
                    !.session_saves = 1]

\* the orders pages of the runs: the fields that are located hold an id, a
\* date and an item count
RunContainers ==
  {c \in Containers : /\ c.id \in {"absent", "PO-1", "PO-2"}
                      /\ c.date \in {"recent", "old", "unparsable"}
                      /\ c.items = "3"}

\* how an iteration of process_order's loop goes: the detail page does not
\* load (continue), a step raises before the result is mapped, or
\* attempt_price_adjustment returns None, False or True
AttemptKinds == {"details_fail", "raises", "None", "False", "True"}

\* the hour of day of a run: the first at 9, the later ones at 14
RunHour(run) == IF run = 1 THEN 9 ELSE 14

\* main() starts: TemuBot() creates the stats and loads the scheduler state
RunsInit ==
  /\ \E mode \in {"now", "schedule"} : bot = NewBot(mode, 0)
  /\ pc = "main"
  /\ stats = NewStats
  /\ state_file \in {d.state_file : d \in PriorDisk}
  /\ success_data = load_state(state_file)
  /\ queue = <<>>
  /\ order = NewOrder("PO-1")
  /\ result = None
  /\ ret = FALSE
  /\ iofaults = 0
  /\ site = [kind |-> "None"]
  /\ adjustment_result = None
  /\ attempt = 0
  /\ dialog_type = "unknown"
  /\ store = [exists |-> FALSE, readable |-> FALSE, orders |-> <<>>]
  /\ files = {}
  /\ hist = HistInit
  /\ call = NoCall
  /\ value = NoValue

\* what no step of a run touches here
fixed == <<adjustment_result, attempt, dialog_type, store, files, hist,
           call, value>>

\* main(): --now calls run(), --schedule computes next_run and loops
Main ==
  /\ pc = "main"
  /\ IF bot.mode = "now"
     THEN pc' = "run" /\ bot' = bot
     ELSE /\ pc' = "loop"
          /\ \E wait \in 0..MaxWait :
               bot' = [bot EXCEPT !.schedules = 1, !.wait = wait]
  /\ UNCHANGED <<queue, order, result, ret, stats, success_data,
                 state_file, iofaults, site, fixed>>

\* a loop that calls run() at every wake-up
reached_always(wait) == TRUE

\* current_time >= next_run
reached(wait) == wait = 0

\* while True: if current_time >= next_run: bot.run(...), else the sleep
\* at the end of the iteration
ScheduledLoop ==
  /\ pc = "loop"
  /\ IF reached(bot.wait) THEN bot.runs < MaxRuns /\ pc' = "run"
     ELSE pc' = "sleep"
  /\ UNCHANGED <<bot, queue, order, result, ret, stats, success_data,
                 state_file, iofaults, site, fixed>>

\* time.sleep(sleep_time) at the end of an iteration of the scheduled loop:
\* next_run is one wake-up nearer, or reached
Sleep ==
  /\ pc = "sleep"
  /\ pc' = "loop"
  /\ \E wait \in 0..bot.wait :
       /\ bot.wait > 0 => wait < bot.wait
       /\ bot' = [bot EXCEPT !.wait = wait]
  /\ UNCHANGED <<queue, order, result, ret, stats, success_data,
                 state_file, iofaults, site, fixed>>

\* run() up to its try block: start_time is set and init_driver is called,
\* which raises out of run() when the browser does not start
Run ==
  /\ pc = "run" /\ bot.runs < MaxRuns
  /\ \E started \in BOOLEAN :
       /\ bot' = [NewBot(bot.mode, bot.runs + 1) EXCEPT
                    !.calls = bot.calls + 1,
                    !.schedules = bot.schedules,
                    !.wait = bot.wait,
                    !.at_start = Counters(stats),
                    !.driver = IF started THEN "open" ELSE "none"]
       /\ pc' = IF started THEN "login" ELSE "crashed"
  /\ UNCHANGED <<queue, order, result, ret, stats, success_data, state_file,
                 iofaults, site, fixed>>

\* if self.login() and ...
Login ==
  /\ pc = "login"
  /\ \E page \in LoginPages :
       /\ bot' = [bot EXCEPT !.login = login(page)]
       /\ pc' = IF bot'.login.ret THEN "navigate" ELSE "summary"
  /\ UNCHANGED <<queue, order, result, ret, stats, success_data, state_file,
                 iofaults, site, fixed>>

\* ... and self.navigate_to_orders(): self.process_orders(); the login page
\* is left
NavigateToOrders ==
  /\ pc = "navigate"
  /\ \E loaded \in BOOLEAN :
       pc' = IF loaded THEN "view_more" ELSE "summary"
  /\ bot' = [bot EXCEPT !.login = LoggedIn]
  /\ UNCHANGED <<queue, order, result, ret, stats, success_data,
                 state_file, iofaults, site, fixed>>

\* while self.is_view_more_present(): the probe of the loading loop; an
\* error of the driver that is not a timeout ends process_orders
ViewMore ==
  /\ pc = "view_more"
  /\ \E button \in {"present", "absent", "error"} :
       CASE button = "present" -> pc' = "click_view_more"
         [] button = "absent" -> pc' = "get_orders"
         [] OTHER -> pc' = "summary"
  /\ UNCHANGED <<bot, queue, order, result, ret, stats, success_data,
                 state_file, iofaults, site, fixed>>

\* self.click_view_more() and the delay: the click loads more orders, or it
\* fails and returns False; the loop probes again either way
ClickViewMore ==
  /\ pc = "click_view_more"
  /\ \E clicked \in BOOLEAN :
       /\ clicked => bot.view_more < MaxViewMore
       /\ bot' = [bot EXCEPT !.view_more = IF clicked THEN @ + 1 ELSE @]
  /\ pc' = "view_more"
  /\ UNCHANGED <<queue, order, result, ret, stats, success_data, state_file,
                 iofaults, site, fixed>>

\* orders = self.get_orders() and the selection of orders_to_process
GetOrders ==
  /\ pc = "get_orders"
  /\ \E page \in PagesOf(RunContainers) :
       LET orders == get_orders(page)
           selected == orders_to_process(orders)
       IN IF orders = <<>>
          THEN /\ bot' = [bot EXCEPT !.enumerated = TRUE, !.view_more = 0]
               /\ pc' = "summary"
               /\ UNCHANGED <<stats, queue>>
          ELSE /\ stats' = [stats EXCEPT
                              !.total_orders = Len(orders),
                              !.valid_orders = Len(valid_orders(orders))]
               /\ queue' = selected
               /\ bot' = [bot EXCEPT !.enumerated = TRUE, !.view_more = 0,
                                     !.selected = Ids(selected)]
               /\ pc' = "batch"
  /\ UNCHANGED <<order, result, ret, success_data, state_file, iofaults,
                 site, fixed>>

\* for order in orders_to_process: processed += 1; process_order(order),
\* which sets attempts to 0 and result to None; the site answers every
\* attempt for the order in one way
BatchNext ==
  /\ pc = "batch"
  /\ IF queue # <<>>
     THEN /\ stats' = [stats EXCEPT !.processed = @ + 1]
          /\ site' \in [kind : AttemptKinds]
          /\ order' = Put(Head(queue), "attempts", 0)
          /\ queue' = Tail(queue)
          /\ result' = None
          /\ bot' = [bot EXCEPT !.handed = Append(@, Head(queue).id)]
          /\ pc' = "process_order"
     ELSE /\ pc' = "summary"
          /\ UNCHANGED <<stats, order, queue, result, bot, site>>
  /\ UNCHANGED <<ret, success_data, state_file, iofaults, fixed>>

\* one iteration of the loop of process_order.  An exception of any step of
\* the try block is taken by the except clause, which counts a failure; the
\* steps after the mapping (save_order_to_txt) raise when a file cannot be
\* written, update_success when scheduler_state.json cannot; the site has
\* then granted the adjustment and may answer the next attempt otherwise
Attempt ==
  /\ pc = "process_order" /\ LoopCond(order, result)
  /\ \E io \in IOOutcomes, txt \in TxtOutcomes :
       LET kind == site.kind
           except == [stats EXCEPT !.failures = @ + 1]
           counted ==
             CASE kind = "True" -> [stats EXCEPT !.success = @ + 1]
               [] kind = "False" ->
                    [stats EXCEPT !.adjustment_not_available = @ + 1]
               [] OTHER -> [stats EXCEPT !.failures = @ + 1]
           mapped == kind \in {"None", "False", "True"}
           saved == kind = "True" /\ io = "ok"
       IN /\ io # "ok" => kind = "True"
          /\ txt # "ok" => mapped /\ io = "ok"
          /\ IOFault(io # "ok" \/ txt # "ok")
          /\ order' = [order EXCEPT !.attempts = @ + 1]
          /\ IF kind = "True"
             THEN /\ success_data' = update_success(success_data,
                                                    RunHour(bot.runs))
                  /\ state_file' = save_state(success_data', state_file, io)
             ELSE UNCHANGED <<success_data, state_file>>
          /\ stats' =
               CASE kind = "details_fail" -> stats
                 [] kind = "raises" -> except
                 [] io # "ok" \/ txt # "ok" ->
                      [counted EXCEPT !.failures = @ + 1]
                 [] OTHER -> counted
          /\ result' = IF saved THEN "True"
                       ELSE IF kind = "False" THEN "False" ELSE None
          /\ IF kind = "True" /\ io # "ok"
             THEN site' \in [kind : AttemptKinds]
             ELSE site' = site
  /\ pc' = pc
  /\ UNCHANGED <<bot, queue, ret, fixed>>

\* return result is True, and the delay between two orders
ProcessOrderReturns ==
  /\ pc = "process_order" /\ ~LoopCond(order, result)
  /\ ret' = (result = "True")
  /\ bot' = [bot EXCEPT !.rets = Append(@, ret')]
  /\ queue' = orders_left(queue, ret')
  /\ pc' = "batch"
  /\ UNCHANGED <<order, result, stats, success_data, state_file, iofaults,
                 site, fixed>>

\* self.print_summary(), and with immediate the next run time is asked
\* of the scheduler and logged; get_next_run_time raises on a state file
\* whose JSON is not a scheduler state
PrintSummary ==
  /\ pc = "summary"
  /\ bot' = [bot EXCEPT !.summaries = @ + 1]
  /\ \E raises \in BOOLEAN :
       /\ raises => bot.mode = "now"
       /\ pc' = IF raises THEN "run_except" ELSE "finally"
  /\ UNCHANGED <<queue, order, result, ret, stats, success_data, state_file,
                 iofaults, site, fixed>>

\* except Exception of run(): the error is logged and print_summary called
RunExcept ==
  /\ pc = "run_except"
  /\ bot' = [bot EXCEPT !.summaries = @ + 1]
  /\ pc' = "finally"
  /\ UNCHANGED <<queue, order, result, ret, stats, success_data, state_file,
                 iofaults, site, fixed>>

\* a run that leaves the browser open
quit_skipped(b) == b

\* self.driver.quit()
quit(b) == [b EXCEPT !.driver = "quit", !.quits = @ + 1]

\* finally: self.driver.quit(); run() returns to main(), whose loop asks
\* the scheduler for the next run time and sleeps
Finally ==
  /\ pc = "finally"
  /\ IF bot.mode = "now"
     THEN bot' = quit(bot) /\ pc' = "exit"
     ELSE /\ \E wait \in 0..MaxWait :
               bot' = [quit(bot) EXCEPT !.schedules = @ + 1, !.wait = wait]
          /\ pc' = "sleep"
  /\ UNCHANGED <<queue, order, result, ret, stats, success_data, state_file,
                 iofaults, site, fixed>>

\* the process has ended and main() is started again: TemuBot() creates new
\* stats and a Scheduler that loads scheduler_state.json
Restart ==
  /\ pc \in {"exit", "crashed"} /\ bot.runs < MaxRuns
  /\ \E mode \in {"now", "schedule"} : bot' = NewBot(mode, bot.runs)
  /\ stats' = NewStats
  /\ success_data' = load_state(state_file)
  /\ pc' = "main"
  /\ UNCHANGED <<queue, order, result, ret, state_file, iofaults, site, fixed>>

RunsNext ==
  \/ Main
  \/ ScheduledLoop
  \/ Sleep
  \/ Run
  \/ Login
  \/ NavigateToOrders
  \/ ViewMore
  \/ ClickViewMore
  \/ GetOrders
  \/ BatchNext
  \/ Attempt
  \/ ProcessOrderReturns
  \/ PrintSummary
  \/ RunExcept
  \/ Finally
  \/ Restart

Runs == RunsInit /\ [][RunsNext]_vars

\* the program goes on as long as it has a step to take
RunsLive == Runs /\ WF_vars(RunsNext)


\* ------------------------------------------------------------------ claims

Status(o) == Get(o, "adjustment_status", "absent")

Attempts(o) == Get(o, "attempts", 0)

SuccessImpliesStatus(o) ==
  Get(o, "adjustment_success", FALSE) => Status(o) = "success"

\* C1: while an order is processed, and in every stored record,
\* adjustment_success == true implies adjustment_status == 'success', also
\* when a persistence step raises after the adjustment was confirmed.
C1_SuccessImpliesStatus ==
  /\ SuccessImpliesStatus(order)
  /\ \A i \in 1..Len(store.orders) : SuccessImpliesStatus(store.orders[i])

\* C2: an order whose detail page fails to load on every attempt ends
\* process_order with adjustment_status 'failed' and attempts == 5.
C2_NeverLoadsEndsFailed ==
  (pc = "returned" /\ hist.detailFails = hist.started)
    => (Status(order) = "failed" /\ order.attempts = 5)

\* C3: every attempt, whatever its outcome, is followed by an upsert of the
\* order record before the next attempt or the next order starts.
C3_UpsertAfterEveryAttempt ==
  (pc = "while" /\ hist.started > 0) => hist.upserted

\* C4: attempts is always in 0..5, changes only by the increment of 1 that
\* starts an attempt (or the reset to 0 that starts process_order), every
\* attempt starts with that increment, and no attempt starts after the 5th.
C4_AttemptsBounded ==
  /\ [](Attempts(order) \in 0..5 /\ hist.started <= 5)
  /\ [][ /\ (Attempts(order') # Attempts(order)) =>
              \/ pc = "while" /\ pc' = "details"
                   /\ Attempts(order') = Attempts(order) + 1
              \/ pc = "idle" /\ pc' = "while" /\ Attempts(order') = 0
         /\ (pc' = "details" /\ pc # "details") =>
              /\ Attempts(order') = Attempts(order) + 1
              /\ hist'.started = hist.started + 1
         /\ (pc = "while" /\ Attempts(order) = 5) => pc' = "returned"
       ]_vars

\* C4 witness: process_order returned after five attempts were started
C4_Witness ==
  pc = "returned" /\ order.attempts = 5 /\ hist.started = 5

\* C5: once an attempt yields a decisive adjustment result (True or False),
\* no further attempt is made: the attempt count stays at that attempt.
C5_NoAttemptAfterDecisive ==
  hist.decisiveAt # 0 => order.attempts = hist.decisiveAt

\* C6: when the first sub-attempt of the first attempt produces a dialog
\* classified as failure, the order ends with adjustment_status
\* 'not_available', adjustment_success false and attempts == 1.
C6_FirstSubAttemptFailure ==
  (pc = "returned" /\ hist.firstSubFail)
    => /\ Status(order) = "not_available"
       /\ order.adjustment_success = FALSE
       /\ order.attempts = 1

\* C7: process_order returns true only after a confirmed adjustment; when
\* it returns false the order carries 'not_available' if unavailability was
\* decided and 'failed' if the attempts were exhausted without a decision.
C7_ReturnAndStatus ==
  pc = "returned" =>
    /\ ret => hist.confirmed
    /\ (~ret /\ result = "False") => Status(order) = "not_available"
    /\ (~ret /\ result = None) => Status(order) = "failed"

EndsInErrorOrNone == hist.outcome \in {"exception", "indeterminate"}

\* C8: an attempt that ends in an exception or in a None result does not
\* end processing while fewer than 5 attempts were made, and after the 5th
\* such attempt the order ends 'failed' and process_order returns false.
C8_RetryAfterErrorOrNone ==
  /\ (pc = "while" /\ EndsInErrorOrNone /\ order.attempts < 5)
       => LoopCond(order, result)
  /\ (pc = "returned" /\ EndsInErrorOrNone)
       => (order.attempts = 5 /\ Status(order) = "failed" /\ ~ret)

\* C9: before a further attempt on the same order begins, a long randomized
\* delay has run since the previous attempt began, and an attempt that ended
\* in an exception captured a page-source snapshot.
C9_DelayBetweenAttempts ==
  /\ (pc = "while" /\ hist.started > 0 /\ LoopCond(order, result))
       => hist.delayed
  /\ (pc = "while" /\ hist.outcome = "exception") => hist.snapshots >= 1

Matching(id) == {i \in 1..Len(store.orders) : store.orders[i].id = id}

\* C10: the store holds at most one record per id, and right after a
\* save_order_data call whose file write the OS did not fail, exactly one
\* record has the order's id and it carries the field values just saved.
C10_UpsertLatest ==
  /\ \A id \in OrderIds : Cardinality(Matching(id)) <= 1
  /\ (pc = "txt" /\ ~hist.saveFault) =>
       /\ Cardinality(Matching(order.id)) = 1
       /\ \A i \in Matching(order.id) :
            \A k \in DOMAIN order : /\ k \in DOMAIN store.orders[i]
                                    /\ store.orders[i][k] = order[k]

\* C11: a stored order record carries a refund_amount only if its
\* adjustment_status is 'success', also after a later run upserted the id.
C11_RefundOnlyOnSuccess ==
  \A i \in 1..Len(store.orders) :
    Has(store.orders[i], "refund_amount")
      => Status(store.orders[i]) = "success"

\* the call under way is a classification that has returned
Classified == call.fn = "check_dialog_type" /\ value.done

\* the dialog of the call is there and its text contains one of the
\* indicators, whatever the capitalisation
Mentions(indicators) ==
  /\ call.dialog.present
  /\ \E indicator \in indicators :
       \E i \in 0..(Len(call.dialog.text) - Len(indicator)) :
         \A j \in 1..Len(indicator) :
           Lower(call.dialog.text[i + j]) = indicator[j]

\* C12: every dialog text that contains an ineligibility keyword, in any
\* capitalisation, is classified 'failure', whether or not it also contains
\* a success keyword.
C12_FailureKeywordWins ==
  (Classified /\ Mentions(failure_indicators)) => value.v = "failure"

\* C12 witness: a text with capitals holding a failure and a success keyword
\* was classified 'failure'
C12_Witness ==
  /\ Classified /\ value.v = "failure"
  /\ call.dialog.text = <<"Request a", "Price Adjustment", "REFUNDED">>

\* C13 as stated: every dialog text that contains a success keyword is
\* classified 'success'.
C13_SuccessKeyword ==
  (Classified /\ Mentions(success_indicators)) => value.v = "success"

\* C13 amended: every dialog text that contains a success keyword and no
\* failure keyword is classified 'success', whatever the structural markers.
C13_SuccessKeywordAlone ==
  (Classified /\ Mentions(success_indicators)
     /\ ~Mentions(failure_indicators)) => value.v = "success"

\* C13 witness: 'Request a price adjustment' with all three structural
\* markers present was classified 'success'
C13_Witness ==
  /\ Classified /\ value.v = "success"
  /\ call.dialog.text = <<"Request a", "price adjustment">>
  /\ call.found_classes = 3

\* C14: a dialog whose text matches neither keyword set is classified
\* 'unknown', or 'failure' when at least 2 structural markers are present;
\* when a keyword set matched, the markers do not decide.
C14_StructuralFallback ==
  /\ ( /\ Classified /\ call.dialog.present
       /\ ~Mentions(failure_indicators) /\ ~Mentions(success_indicators) )
       => value.v = IF call.found_classes >= 2 THEN "failure" ELSE "unknown"
  /\ ( /\ Classified
       /\ Mentions(failure_indicators) \/ Mentions(success_indicators) )
       => value.v = IF Mentions(failure_indicators) THEN "failure"
                    ELSE "success"

\* C14 witness: a text of no keyword with 2 markers was classified 'failure'
C14_Witness ==
  /\ Classified /\ value.v = "failure"
  /\ call.dialog.text = <<"thank you", "close">>
  /\ call.found_classes = 2

\* C15: attempt_price_adjustment runs at most 7 sub-attempts and clicks the
\* control at most once in each; it returns False after a dialog classified
\* failure, and None when no dialog of the call was classified success or
\* failure.
C15_SubAttempts ==
  /\ attempt \in 0..7
  /\ hist.clicks <= 1
  /\ (pc = "map" /\ dialog_type = "failure") => adjustment_result = "False"
  /\ (pc = "map" /\ dialog_type = "unknown") => adjustment_result = None

\* C15 witness: the 7th sub-attempt clicked, met no decisive dialog, and the
\* call returned None
C15_Witness ==
  /\ pc = "map" /\ attempt = 7 /\ hist.clicks = 1
  /\ dialog_type = "unknown" /\ adjustment_result = None

\* C16: the wizard returns True only after the request control, the
\* instant-refund option and the submit control were clicked in that order
\* and a confirmation phrase was seen; no control is clicked twice in one
\* invocation.
C16_FlowOrder ==
  /\ (pc = "map" /\ adjustment_result = "True")
       => /\ hist.flow.clicked = <<"request", "option", "submit">>
          /\ hist.flow.stop = "none"
  /\ \A i, j \in 1..Len(hist.flow.clicked) :
       i # j => hist.flow.clicked[i] # hist.flow.clicked[j]

\* C16 witness: the wizard returned True after its three clicks
C16_Witness ==
  /\ pc = "map" /\ adjustment_result = "True"
  /\ Len(hist.flow.clicked) = 3

\* C17: every failing step of the wizard makes it return False and captures
\* a page-source snapshot.
C17_FailingStepSnapshots ==
  (pc = "map" /\ hist.flow.stop \notin {"not_run", "none"})
    => (adjustment_result = "False" /\ hist.snapshots >= 1)

\* calendar days from the order date to the day of the call
DaysAgo == toordinal(call.now) - toordinal(call.order_date)

\* C18: validate_order_date accepts an order date (midnight of its day, as
\* parse_order_date produces it) iff that day is at most 30 calendar days
\* before the day of the call: 30 days ago is valid at any time of day, 31
\* days ago is not.
C18_ThirtyDayWindow ==
  ( /\ call.fn = "validate_order_date" /\ value.done
    /\ call.order_date # NoDate )
    => (value.v <=> DaysAgo <= 30)

\* the string is written in one of the supported patterns and its numbers
\* make a calendar date
Supported(s) ==
  CASE s.shape \in {"Mon D, YYYY", "Mon D YYYY", "D Mon YYYY", "Mon D"} ->
         ValidDate(s.year, s.b, s.a)
    [] s.shape \in {"N/N/YYYY", "N-N-YYYY"} ->
         ValidDate(s.year, s.b, s.a) \/ ValidDate(s.year, s.a, s.b)
    [] OTHER -> FALSE

\* numeric dates are read day-first when that is a date
DayFirst(s) == ValidDate(s.year, s.b, s.a)

\* C19: for every date string in a supported pattern parse_order_date
\* returns a date, never None, with the day and month the string encodes
\* (numeric dates day-first when that is a valid date, month-first
\* otherwise) and the year it gives.
C19_ParsesSupportedPatterns ==
  ( /\ call.fn = "parse_order_date" /\ value.done
    /\ Supported(call.date_str) )
    => /\ value.v # NoDate
       /\ value.v.day = IF DayFirst(call.date_str) THEN call.date_str.a
                        ELSE call.date_str.b
       /\ value.v.month = IF DayFirst(call.date_str) THEN call.date_str.b
                          ELSE call.date_str.a
       /\ call.date_str.shape # "Mon D" => value.v.year = call.date_str.year

\* C20: with no recorded success get_next_run_time returns a time on the
\* calendar day after the call, between 09:00 and 17:59, its hour in 9..17.
C20_DefaultRunTime ==
  ( /\ call.fn = "get_next_run_time" /\ value.done
    /\ call.success_data.timestamps = <<>> )
    => /\ toordinal(value.v) = toordinal(call.now) + 1
       /\ value.v.minute \in (9 * 60)..(17 * 60 + 59)
       /\ value.v.minute \div 60 \in 9..17

\* C20 witness: called in the last minute of a year with the hour 17 drawn,
\* it returned 17:00 of 1 January
C20_Witness ==
  /\ call.fn = "get_next_run_time" /\ value.done
  /\ call.success_data.timestamps = <<>>
  /\ call.now = [year |-> 2024, month |-> 12, day |-> 31, minute |-> 1439]
  /\ value.v = [year |-> 2025, month |-> 1, day |-> 1, minute |-> 17 * 60]

\* the hours of a histogram that have its highest count
TopHours(hours) ==
  {hours[i].hour : i \in {k \in 1..Len(hours) :
     \A j \in 1..Len(hours) : hours[j].count <= hours[k].count}}

\* minutes between a time of day m (in minutes) and the start of hour h,
\* around the clock
ClockDistance(m, h) ==
  LET d == IF m >= h * 60 THEN m - h * 60 ELSE h * 60 - m
  IN IF d <= 720 THEN d ELSE 1440 - d

\* C21: with successes on record and the trend model raising, the time
\* get_next_run_time returns is within 30 minutes of the start of an hour
\* that has the highest count of the histogram; with 10 successes at hour
\* 14 and 1 at hour 9 it is between 13:30 and 14:30.
C21_FallbackMostFrequentHour ==
  ( /\ call.fn = "get_next_run_time" /\ value.done
    /\ call.success_data.timestamps # <<>>
    /\ call.rnd.model_raises )
    => /\ \E h \in TopHours(call.success_data.hours) :
            /\ ClockDistance(value.v.minute, h) <= 30
            /\ ClockDistance(value.v.minute, h)
                 = IF call.rnd.window_minutes < 0
                   THEN -call.rnd.window_minutes ELSE call.rnd.window_minutes
       /\ ( \E i \in 1..Len(call.success_data.hours) :
              call.success_data.hours[i] = [hour |-> 14, count |-> 10] )
            => value.v.minute \in (13 * 60 + 30)..(14 * 60 + 30)

\* C21 witness: 10 successes at hour 14 recorded after 1 at hour 9, the
\* model raising and a jitter of -30 minutes: the call returned 13:30
C21_Witness ==
  /\ call.fn = "get_next_run_time" /\ value.done
  /\ call.rnd.model_raises /\ call.rnd.window_minutes = -30
  /\ call.success_data.hours
       = <<[hour |-> 9, count |-> 1], [hour |-> 14, count |-> 10]>>
  /\ value.v.minute = 13 * 60 + 30

\* C22: get_next_run_time never returns a time earlier than the time of the
\* call, whatever the scheduler state, the jitter and the time of day.
C22_NeverInThePast ==
  (call.fn = "get_next_run_time" /\ value.done)
    => Minutes(value.v) >= Minutes(call.now)

\* C27: each locator resolver goes through its strategies in list order.
\* When a strategy matches and none before it ended the call, the call
\* returns the match of the first matching strategy and has tried no
\* strategy after it; the not-found outcome (the empty list, or the
\* not-found error) is returned only when no strategy matched, all having
\* been tried; get_order_elements alone lets an error that is not a timeout
\* out, from the strategy that met it and before any match.
C27_FirstMatchingStrategy ==
  ( /\ call.fn \in {"get_order_elements", "safe_find_element", "track_btn"}
    /\ value.done )
    => LET page == call.page
           r == value.v
           matches == {i \in 1..Len(page) : page[i] = "match"}
           errors == IF call.fn = "get_order_elements"
                     THEN {i \in 1..Len(page) : page[i] = "error"}
                     ELSE {}
           stops == matches \cup errors
       IN /\ r.kind = "match"
              => /\ r.index = Min(matches) /\ r.tried = r.index
                 /\ \A j \in 1..(r.index - 1) : page[j] # "match"
          /\ r.kind = "not_found"
              => matches = {} /\ r.tried = Len(page)
          /\ r.kind = "raised"
              => /\ call.fn = "get_order_elements"
                 /\ r.tried = Min(errors)
                 /\ \A j \in 1..r.tried : page[j] # "match"
          /\ (stops # {} /\ Min(stops) \in matches) => r.kind = "match"
          /\ stops = {} => r.kind = "not_found"

\* C27 witness: the Track control is found by the third of seven
\* strategies, after a timeout and an error, the fourth matching as well
C27_Witness ==
  /\ call.fn = "track_btn" /\ value.done
  /\ call.page[1] = "timeout" /\ call.page[2] = "error"
  /\ call.page[3] = "match" /\ call.page[4] = "match"
  /\ value.v = [kind |-> "match", index |-> 3, tried |-> 3]

\* C29: after save_order_to_txt has been called any number of times for
\* an order, exactly one status file exists for it, and it carries the
\* status code of the last call.
C29_OneStatusFile ==
  (call.fn = "save_order_to_txt" /\ value.done)
    => LET last == call.orders[Len(call.orders)]
       IN value.v = {<<StatusCode(last.adjustment_status), BaseName(last)>>}

\* the sum of the counts of a histogram
RECURSIVE SumCounts(_)
SumCounts(hours) ==
  IF hours = <<>> THEN 0 ELSE Head(hours).count + SumCounts(Tail(hours))

\* the count a scheduler state has for an hour
CountAt(sd, hour) ==
  LET at == {i \in 1..Len(sd.hours) : sd.hours[i].hour = hour}
  IN IF at = {} THEN 0 ELSE sd.hours[Min(at)].count

\* C23: a successful adjustment adds exactly 1 to the count of the hour of
\* the run and appends exactly one timestamp; the sum of the hour counts
\* equals the number of timestamps; and neither the number of timestamps
\* nor the count of any hour ever decreases, the state being persisted and
\* loaded again when main() is started anew.
C23_HistoryOnlyGrows ==
  [][ /\ SumCounts(success_data'.hours) = Len(success_data'.timestamps)
      /\ Len(success_data'.timestamps) >= Len(success_data.timestamps)
      /\ \A h \in 0..23 : CountAt(success_data', h) >= CountAt(success_data, h)
      /\ stats'.success = stats.success + 1
           => /\ Len(success_data'.timestamps)
                  = Len(success_data.timestamps) + 1
              /\ CountAt(success_data', RunHour(bot.runs))
                  = CountAt(success_data, RunHour(bot.runs)) + 1 ]_vars

\* C24: every call of run() starts with the counters processed, success,
\* failures and adjustment_not_available at zero.
C24_FreshStatsPerRun ==
  (bot.mode # "none" /\ bot.runs > 0 /\ pc # "main")
    => /\ bot.at_start.processed = 0
       /\ bot.at_start.success = 0
       /\ bot.at_start.failures = 0
       /\ bot.at_start.adjustment_not_available = 0

\* login() has returned and the run is still on the login page or ended
\* there
LoginReturned ==
  bot.mode # "none" /\ bot.login.done /\ "page" \in DOMAIN bot.login

\* C25: when the cached session is restored and its marker found, login
\* returns True with no field typed into, no call of the CAPTCHA gate and
\* no save_session; when there is no session file, the marker is not found
\* or restoring raises, load_cached_session returns False and login goes on
\* to the credential entry and the CAPTCHA gate, and with every field, the
\* gate and the marker in order it types e-mail and password, saves the
\* session and returns True.
C25_CachedSession ==
  (LoginReturned /\ bot.login.page.loads)
    => LET r == bot.login
       IN /\ r.page.cached = "valid"
              => /\ r.ret /\ ~r.entry /\ r.typed = {}
                 /\ r.captcha = 0 /\ r.session_saves = 0
          /\ r.page.cached # "valid"
              => /\ ~load_cached_session(r.page.cached)
                 /\ r.entry /\ r.captcha = 1
                 /\ ( /\ r.page.email = "entered" /\ r.page.captcha
                      /\ r.page.password = "entered" /\ r.page.marker )
                      => /\ r.ret /\ r.typed = {"email", "password"}
                         /\ r.session_saves = 1

\* C25 witness: a login with a valid cached session has returned True
C25_Witness ==
  /\ LoginReturned /\ bot.login.page.loads
  /\ bot.login.page.cached = "valid" /\ bot.login.ret
  /\ pc = "navigate"

\* the login page makes login fail: a required field or button is not
\* found, or the CAPTCHA gate reports unresolved, there being no valid
\* cached session
LoginPageFails(page) ==
  \/ ~page.loads
  \/ /\ page.cached # "valid"
     /\ \/ ~page.captcha
        \/ page.password # "entered"
        \/ ~page.marker

\* C26: in a run whose login fails, get_orders is not called and no order
\* is handed to process_order, no counter changes, the summary is printed
\* and the browser is then quit once.
C26_FailedLoginEndsRun ==
  (LoginReturned /\ LoginPageFails(bot.login.page))
    => /\ ~bot.login.ret
       /\ ~bot.enumerated /\ bot.handed = <<>> /\ bot.selected = <<>>
       /\ Counters(stats) = bot.at_start
       /\ pc \in {"summary", "run_except", "finally", "exit", "sleep", "loop",
                 "run"}
       /\ pc = "summary" => bot.summaries = 0 /\ bot.driver = "open"
       /\ pc = "run_except" => bot.summaries = 1 /\ bot.driver = "open"
       /\ pc = "finally" => bot.summaries >= 1 /\ bot.driver = "open"
       /\ pc \in {"exit", "sleep", "loop", "run"}
            => bot.summaries >= 1 /\ bot.driver = "quit" /\ bot.quits = 1

\* C26 witness: the CAPTCHA gate reported unresolved and the run has ended
\* with the summary printed and the browser quit
C26_Witness ==
  /\ LoginReturned /\ bot.login.page.loads /\ ~bot.login.page.captcha
  /\ pc = "exit" /\ bot.summaries = 1 /\ bot.driver = "quit"

\* C28: every container of the orders page is in the list get_orders
\* returns, a field that is not located being 'N/A' in its order.
C28_MissingFieldIsSentinel ==
  ( /\ call.fn = "get_orders" /\ value.done
    /\ get_order_elements(call.page.strategies, 1).kind = "match" )
    => /\ Len(value.v) = Len(call.page.containers)
       /\ \A i \in 1..Len(value.v) :
            LET c == call.page.containers[i]
            IN /\ c.id = "absent" => value.v[i].id = "N/A"
               /\ c.date = "absent" => value.v[i].date_str = "N/A"
               /\ c.items = "absent" => value.v[i].item_count = "N/A"

\* C30: process_order returns for every order it is handed, whatever
\* happens in its attempts, and the batch loop hands it every order of
\* orders_to_process, in order: the orders handed over and those still to
\* come are the orders selected, and the batch is left only when none is
\* left.
C30_BatchGoesOn ==
  (bot.mode # "none" /\ bot.enumerated)
    => /\ bot.handed \o Ids(queue) = bot.selected
       /\ Len(bot.rets)
            = Len(bot.handed) - (IF pc = "process_order" THEN 1 ELSE 0)
       /\ pc \in {"summary", "run_except", "finally", "exit", "sleep", "loop",
                 "run"}
            => queue = <<>> /\ bot.handed = bot.selected

\* C30 witness: of two orders selected the first used up its attempts, each
\* ending in the except clause or without a result, and the second was
\* adjusted
C30_Witness ==
  /\ bot.mode # "none" /\ pc = "summary"
  /\ bot.selected = <<"PO-1", "PO-2">>
  /\ bot.rets = <<FALSE, TRUE>>
  /\ stats.failures - bot.at_start.failures >= max_attempts

\* C31: when orders.json exists and cannot be parsed, save_order_data
\* writes a store that holds just the current record and returns True; when
\* the write fails it returns False.
C31_CorruptStoreIsReset ==
  (call.fn = "save_order_data" /\ value.done)
    => /\ (call.store.exists /\ ~call.store.readable /\ call.io = "ok")
            => /\ value.v.ret
               /\ value.v.store.readable
               /\ value.v.store.orders = <<value.v.order>>
       /\ call.io # "ok" => ~value.v.ret

\* the date of the order was parsed and is at most 30 days before the day
\* of the enumeration
ParsedAndInWindow(o) ==
  LET d == parse_order_date(DateText(o.date_str))
  IN /\ d # NoDate
     /\ o.date_obj # None
     /\ toordinal(EnumerationTime) - toordinal(d) <= 30

\* C32: every order handed to process_order, and every order waiting in
\* orders_to_process, was enumerated as valid, with a date that was parsed
\* and lies within 30 days before the enumeration; an order whose date was
\* not parsed is not among them.
C32_OnlyValidOrdersProcessed ==
  /\ (bot.mode # "none" /\ pc = "process_order")
       => order.valid /\ ParsedAndInWindow(order)
  /\ (bot.mode # "none" /\ pc \in {"batch", "process_order"})
       => \A i \in 1..Len(queue) :
            queue[i].valid /\ ParsedAndInWindow(queue[i])

\* C32 witness: of two orders enumerated only one was valid and it is the
\* one that was handed to process_order
C32_Witness ==
  /\ bot.mode # "none" /\ pc = "process_order"
  /\ stats.total_orders = 2 /\ stats.valid_orders = 1
  /\ bot.handed = bot.selected /\ Len(bot.handed) = 1

\* C33: in scheduled mode run() is entered only when the current time has
\* reached next_run; every run is started for a next-run time of its own,
\* the first obtained before the loop and a new one after each run before
\* the loop sleeps: while a run is on, as many next-run times were obtained
\* as runs started, and between runs one more.
C33_OneRunPerNextRunTime ==
  bot.mode = "schedule"
    => /\ pc = "run" => bot.wait = 0
       /\ pc \in {"loop", "sleep", "run"} => bot.schedules = bot.calls + 1
       /\ pc \notin {"main", "loop", "sleep", "run"}
            => bot.schedules = bot.calls /\ bot.wait = 0

\* C33 witness: the loop sleeps after its second run, with a third next-run
\* time that is not reached yet
C33_Witness ==
  /\ bot.mode = "schedule" /\ pc = "sleep"
  /\ bot.calls = 2 /\ bot.schedules = 3 /\ bot.wait > 0

C34_RecoveryBeforeNextSubAttempt ==
  (bot.mode = "none" /\ pc = "adjust" /\ attempt > 1)
    => /\ hist.last = "not_found"
            => hist.recovery = <<"scroll", "refresh">> /\ hist.clicks = 0
       /\ hist.last = "unknown_dialog"
            => hist.recovery = <<>> /\ hist.clicks = 1

\* C34 witness: the second sub-attempt starts after the control was not
\* found in the first
C34_Witness ==
  /\ bot.mode = "none" /\ pc = "adjust" /\ attempt = 2
  /\ hist.last = "not_found" /\ hist.recovery = <<"scroll", "refresh">>

\* C35: once the wizard has confirmed the adjustment of an order, no
\* further attempt on the order starts (its detail page is not opened and
\* its controls are not clicked again) and process_order leaves the order
\* with adjustment_status 'success', also when the update of the scheduler
\* state raised after the confirmation.
C35_ConfirmedOrderIsFinal ==
  (bot.mode = "none" /\ hist.confirmed)
    => /\ pc \notin {"details", "tracking", "adjust", "flow"}
       /\ pc = "returned" => Status(order) = "success"

\* C36: an order carries adjustment_status 'not_available', in memory or
\* in the store, only if the dialog of its attempt was classified
\* 'failure'; an attempt whose dialog was classified 'success' and whose
\* wizard was entered never leaves the order 'not_available'.
C36_NotAvailableOnlyAfterFailureDialog ==
  bot.mode = "none"
    => /\ Status(order) = "not_available"
            => dialog_type = "failure" /\ hist.flow = NoFlow
       /\ \A i \in 1..Len(store.orders) :
            ( /\ store.orders[i].id = Get(order, "id", None)
              /\ Status(store.orders[i]) = "not_available"
              /\ pc \in {"txt", "nav", "except"}
              /\ hist.upserted /\ ~hist.saveFault )
              => dialog_type = "failure" /\ hist.flow = NoFlow

\* C37: the enumeration of the orders always terminates: the loading loop
\* of process_orders, once entered, is left after finitely many probes and
\* clicks, also when the clicks keep failing; and get_orders is reached
\* only from a probe of the load-more control (one that found it absent).
C37_EnumerationTerminates ==
  /\ [](pc = "view_more"
         => <>(pc \notin {"view_more", "click_view_more"}))
  /\ [][(pc' = "get_orders" /\ pc # "get_orders") => pc = "view_more"]_vars

\* the calls of process_order in this run that returned True
ReturnedTrue == Cardinality({i \in 1..Len(bot.rets) : bot.rets[i]})

\* C38: in every state of a run, processed <= min(10, valid_orders) <=
\* total_orders and success + adjustment_not_available <= processed, and
\* between two orders and at the end of the run success is the number of
\* orders for which process_order returned True.
C38_CountersConsistent ==
  (bot.mode # "none" /\ bot.calls > 0)
    => /\ stats.processed <= Min({10, stats.valid_orders})
       /\ Min({10, stats.valid_orders}) <= stats.total_orders
       /\ stats.success + stats.adjustment_not_available <= stats.processed
       /\ pc \in {"batch", "summary", "run_except", "finally"}
            => stats.success = ReturnedTrue

====
